---------------------------- MODULE Spec2Model ----------------------------
(***************************************************************************)
(* Model of src/protocol.py: the CRC-16 framing (msg_build / msg_parse),   *)
(* the signed variable-length integer codec (vlq_pack / vlq_unpack) and    *)
(* the paged identify session of class Device.                             *)
(*                                                                         *)
(* Bytes are integers 0..255, byte strings are sequences of bytes.  A      *)
(* Python exception is a record whose exc field names the exception class  *)
(* and whose text field names the message; exc = "" is a normal return.    *)
(***************************************************************************)
EXTENDS Integers, Sequences, FiniteSets, TLC

(***************************************************************************)
(* Bounds of the model.                                                    *)
(***************************************************************************)
\* vlq inputs are all integers of -MaxVlq..MaxVlq (plus the boundary values)
MaxVlq == 17000
\* longest payload handed to msg_build in the framing specification
MaxPayloadLen == 2
\* requests one identify call may write before the model stops following it
MaxRounds == 4
\* requests one Device may write in its lifetime (more than 16: the nibble wraps)
MaxRequests == 17
\* requests of the single long identify call of SpecDeep
MaxDeepRounds == 310
\* longest byte string handed to vlq_unpack in the decoding specification
MaxDecodeLen == 3

(***************************************************************************)
(* Integer helpers standing for Python's int operators.                    *)
(***************************************************************************)
RECURSIVE Pow2(_)
Pow2(n) == IF n <= 0 THEN 1 ELSE 2 * Pow2(n - 1)

\* int.bit_length(): bits needed for abs(n); 0 for 0
RECURSIVE bit_length(_)
bit_length(n) ==
    IF n = 0 THEN 0
    ELSE IF n < 0 THEN bit_length(-n)
    ELSE 1 + bit_length(n \div 2)

\* a ^ b bit by bit
RECURSIVE XorBits(_, _)
XorBits(a, b) ==
    IF a = 0 THEN b
    ELSE IF b = 0 THEN a
    ELSE ((a + b) % 2) + 2 * XorBits(a \div 2, b \div 2)

\* the same, tabulated once for bytes
XorByte == [a \in 0..255 |-> [b \in 0..255 |-> XorBits(a, b)]]

\* a ^ b on integers of at most 16 bits
Xor(a, b) == 256 * XorByte[a \div 256][b \div 256] + XorByte[a % 256][b % 256]

\* the width-bit reversal of x (crc.Configuration reverse_input/reverse_output)
RECURSIVE Reverse(_, _)
Reverse(x, width) ==
    IF width = 0 THEN 0
    ELSE (x % 2) * Pow2(width - 1) + Reverse(x \div 2, width - 1)

ReverseByte == [b \in 0..255 |-> Reverse(b, 8)]

\* Python slice s[a:b] for 0 <= a, 0 <= b (0-based, end exclusive)
Slice(s, a, b) == SubSeq(s, a + 1, IF b > Len(s) THEN Len(s) ELSE b)

Max0(n) == IF n < 0 THEN 0 ELSE n

(***************************************************************************)
(* crc_ccitt: width 16, polynomial 0x1021, init 0xFFFF, reflected input    *)
(* and output, no final xor.                                               *)
(***************************************************************************)
CrcWidth == 16
CrcPolynomial == 4129
CrcInit == 65535

\* one shift of the 16-bit register, most significant bit first
CrcShift(c) ==
    IF c >= 32768 THEN Xor((2 * c) % 65536, CrcPolynomial) ELSE 2 * c

\* optimized=True: the register after the eight shifts of each possible top byte
CrcTable ==
    [b \in 0..255 |->
        CrcShift(CrcShift(CrcShift(CrcShift(
        CrcShift(CrcShift(CrcShift(CrcShift(b * 256))))))))  ]

\* the register after one more (bit-reversed) input byte
CrcByte(c, byte) ==
    Xor((c * 256) % 65536, CrcTable[Xor(c \div 256, ReverseByte[byte])])

\* the register after bytes i..n of m.  The register never exceeds 16 bits; the
\* comparison comes first so that the register is a value before the next byte.
RECURSIVE CrcFold(_, _, _, _)
CrcFold(c, m, i, n) ==
    IF c >= 65536 \/ i > n THEN c
    ELSE CrcFold(CrcByte(c, m[i]), m, i + 1, n)

\* the same loop over all of m from byte i, sixteen bytes at a time (this only
\* keeps the evaluation shallow)
RECURSIVE CrcBlocks(_, _, _)
CrcBlocks(c, m, i) ==
    IF c >= 65536 \/ i > Len(m) THEN c
    ELSE CrcBlocks(CrcFold(c, m, i, IF i + 15 > Len(m) THEN Len(m) ELSE i + 15),
                   m, i + 16)

crc_ccitt(m) == Reverse(CrcBlocks(CrcInit, m, 1), CrcWidth)

\* mutant: the two bytes in little-endian order
crc_struct_pack_le(v) == << v % 256, v \div 256 >>

\* _crc_struct.pack: '>H', two bytes, big-endian
crc_struct_pack(v) == << v \div 256, v % 256 >>

(***************************************************************************)
(* Message framer.                                                         *)
(***************************************************************************)
SyncByte == 126
ControlMarker == 16
FrameOverhead == 5
\* the largest value struct format 'B' packs
UByteMax == 255

\* mutant: the sequence id is added without the 0x0f mask
ControlByte_nomask(sid) == ControlMarker + sid

\* 0x10 | (sequence_id & 0x0f)
ControlByte(sid) == ControlMarker + (sid % 16)

\* mutant: the length is packed modulo 256
msg_build_wrap(d, sid) ==
    LET hdr == << (Len(d) + FrameOverhead) % 256, ControlByte(sid) >> \o d
    IN  [exc |-> "", text |-> "",
         msg |-> hdr \o crc_struct_pack(crc_ccitt(hdr)) \o << SyncByte >>]

\* _msg_header_struct.pack: 'BB', each argument must fit one byte
msg_build(d, sid) ==
    IF Len(d) + FrameOverhead > UByteMax
    THEN [exc |-> "struct.error", text |-> "ubyte format requires 0 <= number <= 255",
          msg |-> << >>]
    ELSE LET hdr == << Len(d) + FrameOverhead, ControlByte(sid) >> \o d
         IN  [exc |-> "", text |-> "",
              msg |-> hdr \o crc_struct_pack(crc_ccitt(hdr)) \o << SyncByte >>]

\* mutant: only the low CRC byte is compared
CrcMatches_low(m) ==
    Len(m) >= 3
    /\ crc_struct_pack(crc_ccitt(Slice(m, 0, Len(m) - 3)))[2] = m[Len(m) - 1]

\* the checks of msg_parse, each as the code states it
CrcMatches(m) ==
    crc_struct_pack(crc_ccitt(Slice(m, 0, Max0(Len(m) - 3))))
        = Slice(m, Max0(Len(m) - 3), Max0(Len(m) - 1))
LengthMatches(m) == m[1] = Len(m)
MarkerMatches(m) == (m[2] \div 16) * 16 = ControlMarker
SyncMatches(m) == m[Len(m)] = SyncByte
\* mutant: the nibble is taken from msg[0] instead of msg[1]
SequenceMatches_index(m, sid) == m[1] % 16 = sid % 16

SequenceMatches(m, sid) == m[2] % 16 = sid % 16

\* mutant: the payload slice ends one byte late, msg[2:-2]
FramePayload_late(m) == Slice(m, 2, Len(m) - 2)

\* msg[2:-3]
FramePayload(m) == Slice(m, 2, Len(m) - 3)

Raise(e, t) == [exc |-> e, text |-> t, data |-> << >>]

\* mutant: the sequence id is compared before the three assertions
msg_parse_seqfirst(m, sid) ==
    IF ~CrcMatches(m) THEN Raise("ValueError", "Wrong CRC checksum")
    ELSE IF ~SequenceMatches(m, sid)
         THEN Raise("ValueError", "Wrong sequence id (means NAK response)")
    ELSE IF ~LengthMatches(m) THEN Raise("AssertionError", "Wrong length")
    ELSE IF ~MarkerMatches(m)
         THEN Raise("AssertionError", "upper nibble in sequence byte is wrong")
    ELSE IF ~SyncMatches(m) THEN Raise("AssertionError", "sync byte is wrong")
    ELSE [exc |-> "", text |-> "", data |-> FramePayload(m)]

msg_parse(m, sid) ==
    IF ~CrcMatches(m) THEN Raise("ValueError", "Wrong CRC checksum")
    ELSE IF ~LengthMatches(m) THEN Raise("AssertionError", "Wrong length")
    ELSE IF ~MarkerMatches(m)
         THEN Raise("AssertionError", "upper nibble in sequence byte is wrong")
    ELSE IF ~SyncMatches(m) THEN Raise("AssertionError", "sync byte is wrong")
    ELSE IF ~SequenceMatches(m, sid)
         THEN Raise("ValueError", "Wrong sequence id (means NAK response)")
    ELSE [exc |-> "", text |-> "", data |-> FramePayload(m)]

(***************************************************************************)
(* VLQ codec.                                                              *)
(***************************************************************************)
\* mutant: one bit fewer is counted for a value that is not negative
VlqBits_short(v) ==
    IF v >= 0 THEN bit_length(v + 32) - 2
    ELSE bit_length(v + 1) + 1

\* the number of extra groups: bits // 7 with bits as line 39 computes it
VlqBits(v) ==
    IF v >= 0 THEN bit_length(v + 32) - 1
    ELSE bit_length(v + 1) + 1

\* the loop of vlq_pack: i groups still to prepend
RECURSIVE VlqPrepend(_, _, _)
VlqPrepend(v, bstr, i) ==
    IF i <= 0 THEN bstr
    ELSE LET w == v \div 128
         IN  VlqPrepend(w, << 128 + (w % 128) >> \o bstr, i - 1)

vlq_pack(v) == VlqPrepend(v, << v % 128 >>, VlqBits(v) \div 7)

\* mutant: a string that ends in a continuation byte is taken to end there
RECURSIVE VlqScan_lenient(_, _, _)
VlqScan_lenient(d, pos, v) ==
    IF pos >= Len(d) THEN [pos |-> Len(d) - 1, value |-> v]
    ELSE LET w == v * 128 + (d[pos + 1] % 128)
         IN  IF d[pos + 1] < 128 THEN [pos |-> pos, value |-> w]
             ELSE VlqScan_lenient(d, pos + 1, w)

\* the scan of vlq_unpack from position pos (0-based) with accumulator v:
\* the position of the first byte without the continuation bit, or -1
RECURSIVE VlqScan(_, _, _)
VlqScan(d, pos, v) ==
    IF pos >= Len(d) THEN [pos |-> -1, value |-> v]
    ELSE LET w == v * 128 + (d[pos + 1] % 128)
         IN  IF d[pos + 1] < 128 THEN [pos |-> pos, value |-> w]
             ELSE VlqScan(d, pos + 1, w)

\* mutant: bit 6 alone is taken for the sign
SignBits_bit6(byte) == (byte \div 64) % 2 = 1

\* d[0] & 0x60 == 0x60
SignBits(byte) == (byte \div 32) % 4 = 3

\* mutant: the remainder starts at the last byte of the number, data[pos:]
vlq_unpack_keep(d) ==
    LET s == VlqScan(d, 0, 0)
    IN  IF s.pos < 0
        THEN [exc |-> "ValueError", text |-> "last byte has MSB set",
              value |-> 0, rest |-> << >>]
        ELSE [exc |-> "", text |-> "",
              value |-> IF SignBits(d[1])
                        THEN s.value - 128 * Pow2(s.pos * 7)
                        ELSE s.value,
              rest |-> Slice(d, s.pos, Len(d))]

vlq_unpack(d) ==
    LET s == VlqScan(d, 0, 0)
    IN  IF s.pos < 0
        THEN [exc |-> "ValueError", text |-> "last byte has MSB set",
              value |-> 0, rest |-> << >>]
        ELSE [exc |-> "", text |-> "",
              value |-> IF SignBits(d[1])
                        THEN s.value - 128 * Pow2(s.pos * 7)
                        ELSE s.value,
              rest |-> Slice(d, s.pos + 1, Len(d))]

(***************************************************************************)
(* State.                                                                  *)
(***************************************************************************)
VARIABLES
    \* class Device and the locals of Device.identify / Device.receive
    pc,           \* position in identify: idle, loop, build, await, recv, ...
    sequence_id,  \* self._sequence_id
    address,      \* identify: address
    data,         \* identify: data
    req_msg,      \* identify: req_msg, the frame handed to serial.write
    msg,          \* receive: msg
    msg_resp,     \* identify: msg_resp
    result,       \* how the current identify call ended, Pending until it has
    rx,           \* the transport's input buffer (bytes sent by the device, unread)
    \* history
    written,      \* serial.write calls over the lifetime of the Device
    round,        \* serial.write calls of the current identify call
    served,       \* the device's answers in the current identify call, each as
                  \* << data bytes beyond the request payload's length, image >>
    had_error,    \* some identify call of this Device ended in an exception
    op_count,     \* calls of serial methods made by the current identify call
    last_op,      \* the last of them: << method, size or length argument >>
    \* one application of vlq_pack / vlq_unpack
    vstage, value, vlq_bstr, remainder, unpacked,
    \* one application of msg_build / msg_parse
    fstage, payload, seq, frame, expected, parsed

devvars == << pc, sequence_id, address, data, req_msg, msg, msg_resp, result, rx,
              written, round, served, had_error, op_count, last_op >>
vlqvars == << vstage, value, vlq_bstr, remainder, unpacked >>
frmvars == << fstage, payload, seq, frame, expected, parsed >>
vars == << devvars, vlqvars, frmvars >>

(***************************************************************************)
(* Device.identify, statement by statement.                                *)
(***************************************************************************)
ReadOpcode == 1
RequestCount == 40
AddressStep == 40
ChunkSize == 40

\* line 75: b'\x01' + vlq_pack(address) + b'\x28'
RequestPayload(a) == << ReadOpcode >> \o vlq_pack(a) \o << RequestCount >>

\* line 76: self._sequence_id += 1
NextSequenceId(sid) == sid + 1

\* line 77: address += 0x28
NextAddress(a) == a + AddressStep

\* mutant: msg_parse is handed the id the request was built with
ExpectedSequenceId_request(sid) == sid - 1

\* line 79: the sequence id handed to msg_parse is self._sequence_id as it is then
ExpectedSequenceId(sid) == sid

\* mutant: a fixed three bytes are stripped (right while the address takes one byte)
NewData_fixed(resp, req) == Slice(resp, 3, Len(resp))

\* line 80: msg_resp[len(req_msg) - 5:]
NewData(resp, req) == Slice(resp, Len(req) - FrameOverhead, Len(resp))

\* line 81: len(msg_resp) + 5 - len(req_msg)
NewByteCount(resp, req) == Len(resp) + FrameOverhead - Len(req)

\* mutant: the loop ends only on fewer than 0x28 new bytes
LoopExit_less(resp, req) == Len(resp) + FrameOverhead - Len(req) < ChunkSize

\* line 81: the break condition
LoopExit(resp, req) == NewByteCount(resp, req) # ChunkSize

\* serial.read(size) on the buffer b: the bytes returned (fewer on a timeout,
\* none for size <= 0)
ReadBytes(b, size) == IF size <= 0 THEN << >> ELSE Slice(b, 0, size)
ReadLeft(b, size) == IF size <= 0 THEN b ELSE Slice(b, size, Len(b))

\* mutant: the second read asks for the whole declared length
RestSize_whole(m) == m[1]

\* line 68: msg[0] - 1
RestSize(m) == m[1] - 1

NoOp == << "none", 0 >>

\* identify has not returned or raised yet
Pending == [exc |-> "", text |-> "pending"]

DeviceInit ==
    /\ pc = "idle"
    /\ sequence_id = 0
    /\ address = 0
    /\ data = << >>
    /\ req_msg = << >>
    /\ msg = << >>
    /\ msg_resp = << >>
    /\ result = Pending
    /\ rx = << >>
    /\ written = 0
    /\ round = 0
    /\ served = << >>
    /\ had_error = FALSE
    /\ op_count = 0
    /\ last_op = NoOp

\* mutant: the exception is noted and the loop starts the round again
Fail_retry(e) ==
    /\ pc' = "loop"
    /\ result' = [exc |-> e.exc, text |-> e.text]
    /\ had_error' = TRUE

\* identify raises exception e out of the call
Fail(e) ==
    /\ pc' = "idle"
    /\ result' = [exc |-> e.exc, text |-> e.text]
    /\ had_error' = TRUE

\* lines 71-72
IdentifyCall(maxreq) ==
    /\ UNCHANGED << vlqvars, frmvars >>
    /\ pc = "idle"
    /\ written < maxreq
    /\ pc' = "loop"
    /\ address' = 0
    /\ data' = << >>
    /\ req_msg' = << >>
    /\ msg' = << >>
    /\ msg_resp' = << >>
    /\ round' = 0
    /\ served' = << >>
    /\ result' = Pending
    /\ op_count' = 0
    /\ last_op' = NoOp
    /\ UNCHANGED << sequence_id, rx, written, had_error >>

\* line 74
ResetInputBuffer(maxrounds) ==
    /\ UNCHANGED << vlqvars, frmvars >>
    /\ pc = "loop"
    /\ round < maxrounds
    /\ rx' = << >>
    /\ op_count' = op_count + 1
    /\ last_op' = << "reset_input_buffer", 0 >>
    /\ pc' = "build"
    /\ UNCHANGED << sequence_id, address, data, req_msg, msg, msg_resp, result,
                    written, round, served, had_error >>

\* lines 75-78 (the payloads identify builds always fit a frame)
WriteRequest ==
    /\ UNCHANGED << vlqvars, frmvars >>
    /\ pc = "build"
    /\ req_msg' = msg_build(RequestPayload(address), sequence_id).msg
    /\ sequence_id' = NextSequenceId(sequence_id)
    /\ address' = NextAddress(address)
    /\ written' = written + 1
    /\ round' = round + 1
    /\ op_count' = op_count + 1
    /\ last_op' = << "write", Len(req_msg') >>
    /\ pc' = "await"
    /\ UNCHANGED << data, msg, msg_resp, result, rx, served, had_error >>

\* Device.receive, line 67: serial.read(1); msg[0] of an empty read raises
ReceiveHead ==
    /\ UNCHANGED << vlqvars, frmvars >>
    /\ pc = "recv"
    /\ op_count' = op_count + 1
    /\ last_op' = << "read", 1 >>
    /\ IF rx = << >>
       THEN /\ Fail([exc |-> "IndexError", text |-> "index out of range"])
            /\ UNCHANGED << msg, rx >>
       ELSE /\ msg' = ReadBytes(rx, 1)
            /\ rx' = ReadLeft(rx, 1)
            /\ pc' = "recv_rest"
            /\ UNCHANGED << result, had_error >>
    /\ UNCHANGED << sequence_id, address, data, req_msg, msg_resp,
                    written, round, served >>

\* Device.receive, line 68: msg + serial.read(msg[0] - 1)
ReceiveRest ==
    /\ UNCHANGED << vlqvars, frmvars >>
    /\ pc = "recv_rest"
    /\ msg' = msg \o ReadBytes(rx, RestSize(msg))
    /\ rx' = ReadLeft(rx, RestSize(msg))
    /\ op_count' = op_count + 1
    /\ last_op' = << "read", RestSize(msg) >>
    /\ pc' = "parse"
    /\ UNCHANGED << sequence_id, address, data, req_msg, msg_resp, result,
                    written, round, served, had_error >>

\* lines 79-82
ParseResponse ==
    /\ UNCHANGED << vlqvars, frmvars >>
    /\ pc = "parse"
    /\ LET r == msg_parse(msg, ExpectedSequenceId(sequence_id))
       IN  IF r.exc # ""
           THEN /\ Fail(r)
                /\ UNCHANGED << data, msg_resp >>
           ELSE /\ msg_resp' = r.data
                /\ data' = data \o NewData(r.data, req_msg)
                /\ pc' = IF LoopExit(r.data, req_msg) THEN "decompress" ELSE "loop"
                /\ UNCHANGED << result, had_error >>
    /\ UNCHANGED << sequence_id, address, req_msg, msg, rx, written, round, served,
                    op_count, last_op >>

\* lines 83-84: zlib.decompress and json.loads either return or raise
Outcomes ==
    { [exc |-> "", text |-> "record"],
      [exc |-> "zlib.error", text |-> "decompress"],
      [exc |-> "JSONDecodeError", text |-> "loads"] }

DecompressAndLoad ==
    /\ UNCHANGED << vlqvars, frmvars >>
    /\ pc = "decompress"
    /\ \E o \in Outcomes :
          /\ result' = o
          /\ had_error' = (had_error \/ o.exc # "")
    /\ pc' = "idle"
    /\ UNCHANGED << sequence_id, address, data, req_msg, msg, msg_resp, rx,
                    written, round, served, op_count, last_op >>

(***************************************************************************)
(* The device at the other end of the serial line.                         *)
(***************************************************************************)
\* a frame as a device may send it: any length byte, control byte, CRC error
\* pattern and last byte
DeviceFrame(d, lenbyte, ctl, crcxor, sync) ==
    LET hdr == << lenbyte, ctl >> \o d
    IN  hdr \o crc_struct_pack(Xor(crc_ccitt(hdr), crcxor)) \o << sync >>

\* the bytes of page number page, count of them, of one of two memory images
Chunk(page, count, image) ==
    [i \in 1..count |-> (ChunkSize * page + i - 1 + 101 * image) % 251]

\* the payload answering request frame req: as long as the request payload
\* (message id, the offset field of the request, a length byte), then the data
ResponsePayload(req, chunk) ==
    << 0 >> \o Slice(req, 3, Len(req) - 4) \o << Len(chunk) >> \o chunk

\* an acknowledging device answers with the sequence nibble after the request's
AckControl(req) == ControlMarker + ((req[2] + 1) % 16)

DataLens == {0, 10, 39, 40, 41}
Images == {0, 1}
Faults == {"nak", "badcrc", "badlen", "badmarker", "badsync", "short",
           "trailing", "silent"}

Answer(kind, req, chunk) ==
    LET p == ResponsePayload(req, chunk)
        n == Len(p) + FrameOverhead
        ok == DeviceFrame(p, n, AckControl(req), 0, SyncByte)
    IN  CASE kind = "ack" -> ok
          [] kind = "nak" -> DeviceFrame(p, n, req[2], 0, SyncByte)
          [] kind = "badcrc" -> DeviceFrame(p, n, AckControl(req), 256, SyncByte)
          [] kind = "badlen" -> DeviceFrame(p, n + 1, AckControl(req), 0, SyncByte)
          [] kind = "badmarker" -> DeviceFrame(p, n, AckControl(req) + 16, 0, SyncByte)
          [] kind = "badsync" -> DeviceFrame(p, n, AckControl(req), 0, SyncByte + 1)
          [] kind = "short" -> DeviceFrame(<< 0 >>, 1 + FrameOverhead, AckControl(req),
                                           0, SyncByte)
          [] kind = "trailing" -> ok \o << SyncByte >>
          [] kind = "silent" -> << >>

DeviceAnswers(kinds, lens, images) ==
    /\ UNCHANGED << vlqvars, frmvars >>
    /\ pc = "await"
    /\ \E kind \in kinds, count \in lens, image \in images :
          LET chunk == Chunk(round - 1, count, image)
          IN  /\ rx' = rx \o Answer(kind, req_msg, chunk)
              /\ served' = Append(served,
                     << IF kind = "short" THEN 1 - (Len(req_msg) - FrameOverhead)
                        ELSE count,
                        image >>)
    /\ pc' = "recv"
    /\ UNCHANGED << sequence_id, address, data, req_msg, msg, msg_resp, result,
                    written, round, had_error, op_count, last_op >>

DeviceRespond ==
    \/ DeviceAnswers({"ack"}, DataLens, Images)
    \/ DeviceAnswers(Faults, {ChunkSize}, {0})

(***************************************************************************)
(* Spec: one Device over its lifetime, identify called again and again.    *)
(***************************************************************************)
VlqOff ==
    /\ vstage = "off" /\ value = 0 /\ vlq_bstr = << >>
    /\ remainder = << >> /\ unpacked = ""
FrameOff ==
    /\ fstage = "off" /\ payload = << >> /\ seq = 0 /\ frame = << >>
    /\ expected = 0 /\ parsed = ""

Init == DeviceInit /\ VlqOff /\ FrameOff

Next ==
    \/ IdentifyCall(MaxRequests)
    \/ ResetInputBuffer(MaxRounds)
    \/ WriteRequest
    \/ DeviceRespond
    \/ ReceiveHead
    \/ ReceiveRest
    \/ ParseResponse
    \/ DecompressAndLoad

Spec == Init /\ [][Next]_vars

(***************************************************************************)
(* SpecDeep: one identify call followed through many pages, the device     *)
(* acknowledging every request with a full or a final page.                *)
(***************************************************************************)
\* one whole iteration of the loop, lines 74-82, with the device's answer in
\* between: the statements of ResetInputBuffer, WriteRequest, DeviceAnswers,
\* ReceiveHead, ReceiveRest and ParseResponse in one step
AckRound(maxrounds, lens) ==
    /\ UNCHANGED << vlqvars, frmvars >>
    /\ pc = "loop"
    /\ round < maxrounds
    /\ \E count \in lens :
          LET req == msg_build(RequestPayload(address), sequence_id).msg
              sid == NextSequenceId(sequence_id)
              wire == Answer("ack", req, Chunk(round, count, 0))
              head == ReadBytes(wire, 1)
              m == head \o ReadBytes(ReadLeft(wire, 1), RestSize(head))
              r == msg_parse(m, ExpectedSequenceId(sid))
          IN  /\ req_msg' = req
              /\ sequence_id' = sid
              /\ address' = NextAddress(address)
              /\ written' = written + 1
              /\ round' = round + 1
              /\ served' = Append(served, << count, 0 >>)
              /\ msg' = m
              /\ rx' = ReadLeft(ReadLeft(wire, 1), RestSize(head))
              /\ op_count' = op_count + 4
              /\ last_op' = << "read", RestSize(head) >>
              /\ IF r.exc # ""
                 THEN /\ Fail(r)
                      /\ UNCHANGED << data, msg_resp >>
                 ELSE /\ msg_resp' = r.data
                      /\ data' = data \o NewData(r.data, req)
                      /\ pc' = IF LoopExit(r.data, req) THEN "decompress" ELSE "loop"
                      /\ UNCHANGED << result, had_error >>

NextDeep ==
    \/ IdentifyCall(1)
    \/ AckRound(MaxDeepRounds, {10, ChunkSize})
    \/ DecompressAndLoad

SpecDeep == Init /\ [][NextDeep]_vars

(***************************************************************************)
(* SpecVlq: vlq_pack applied to an integer, then vlq_unpack applied to the *)
(* bytes it returned followed by some remainder.                           *)
(***************************************************************************)
\* the values at which the encoded length should change, up to four bytes
VlqBoundaries ==
    { Pow2(7 * k) - 32 : k \in 1..3 } \cup { -Pow2(7 * k - 2) - 1 : k \in 1..3 }

VlqInputs ==
    (-MaxVlq..MaxVlq) \cup { b + e : b \in VlqBoundaries, e \in -2..2 }

Remainders == { << >>, << 0 >>, << 255, 1 >> }

DeviceOff == DeviceInit

InitVlq ==
    /\ DeviceOff /\ FrameOff
    /\ vstage = "in"
    /\ value \in VlqInputs
    /\ vlq_bstr = << >>
    /\ remainder = << >>
    /\ unpacked = ""

Pack ==
    /\ UNCHANGED << devvars, frmvars >>
    /\ vstage = "in"
    /\ vlq_bstr' = vlq_pack(value)
    /\ vstage' = "packed"
    /\ UNCHANGED << value, remainder, unpacked >>

Unpack ==
    /\ UNCHANGED << devvars, frmvars >>
    /\ vstage = "packed"
    /\ \E r \in Remainders :
          /\ remainder' = r
          /\ unpacked' = vlq_unpack(vlq_bstr \o r)
    /\ vstage' = "unpacked"
    /\ UNCHANGED << value, vlq_bstr >>

NextVlq == Pack \/ Unpack

SpecVlq == InitVlq /\ [][NextVlq]_vars

(***************************************************************************)
(* SpecDecode: vlq_unpack applied to a byte string from any sender.        *)
(***************************************************************************)
\* the bytes at which the continuation bit and the two sign bits change
DecodeBytes ==
    { 0, 31, 32, 63, 64, 95, 96, 127, 128, 159, 160, 191, 192, 223, 224, 255 }

ByteStrings == UNION { [1..n -> DecodeBytes] : n \in 0..MaxDecodeLen }

InitDecode ==
    /\ DeviceOff /\ FrameOff
    /\ vstage = "bytes"
    /\ value = 0
    /\ vlq_bstr \in ByteStrings
    /\ remainder = << >>
    /\ unpacked = ""

Decode ==
    /\ UNCHANGED << devvars, frmvars >>
    /\ vstage = "bytes"
    /\ unpacked' = vlq_unpack(vlq_bstr)
    /\ vstage' = "decoded"
    /\ UNCHANGED << value, vlq_bstr, remainder >>

NextDecode == Decode

SpecDecode == InitDecode /\ [][NextDecode]_vars

(***************************************************************************)
(* SpecFrame: msg_build applied to a payload and a sequence id, the frame  *)
(* possibly damaged on the line, then msg_parse applied to it.             *)
(***************************************************************************)
PayloadBytes == {126, 255}

Payloads == UNION { [1..n -> PayloadBytes] : n \in 0..MaxPayloadLen }

SequenceIds == 0..15

\* the longest payload a frame holds, and the shortest it does not
LongPayloads == { [i \in 1..n |-> (i - 1) % 256] : n \in {UByteMax - FrameOverhead,
                                                     UByteMax - FrameOverhead + 1} }

\* sequence ids outside 0..15, as the counter of a Device leaves that range
WideSequenceIds == {-16, -1, 16, 31, 255, 256}

FrameInputs ==
    (Payloads \X SequenceIds) \cup (LongPayloads \X {15})
        \cup ({ << >>, << 126 >> } \X WideSequenceIds)

\* sequence ids msg_parse is asked to expect for a frame built with s
ExpectedIds(s) == {s, s + 1, (s + 1) % 16, s + 16, (s + 15) % 16}

\* byte i (1-based) of f with bit b flipped
FlipBit(f, i, b) == [f EXCEPT ![i] = Xor(f[i], Pow2(b))]

InitFrame ==
    /\ DeviceOff /\ VlqOff
    /\ fstage = "in"
    /\ \E input \in FrameInputs : payload = input[1] /\ seq = input[2]
    /\ frame = << >>
    /\ expected = 0
    /\ parsed = ""

Build ==
    /\ UNCHANGED << devvars, vlqvars >>
    /\ fstage = "in"
    /\ LET r == msg_build(payload, seq)
       IN  /\ frame' = r.msg
           /\ fstage' = IF r.exc = "" THEN "built" ELSE "failed"
    /\ UNCHANGED << payload, seq, expected, parsed >>

\* one bit of the frame flips on the line
Corrupt ==
    /\ UNCHANGED << devvars, vlqvars >>
    /\ fstage = "built"
    /\ \E i \in 1..Len(frame), b \in 0..7 :
          /\ frame' = FlipBit(frame, i, b)
          /\ fstage' = "flipped"
    /\ UNCHANGED << payload, seq, expected, parsed >>

\* the sender is not msg_build: any mix of a wrong length byte, a wrong
\* marker, a wrong CRC and a wrong last byte, on the same payload
Forge ==
    /\ UNCHANGED << devvars, vlqvars >>
    /\ fstage = "built"
    /\ \E dl \in {0, 1}, dm \in {0, 16}, dc \in {0, 1}, ds \in {0, 1} :
          /\ dl + dm + dc + ds > 0
          /\ frame' = DeviceFrame(payload, (Len(payload) + FrameOverhead + dl) % 256,
                                  ControlByte(seq) + dm, dc, SyncByte + ds)
          /\ fstage' = "forged"
    /\ UNCHANGED << payload, seq, expected, parsed >>

\* only the first n bytes of the frame arrive
Truncate ==
    /\ UNCHANGED << devvars, vlqvars >>
    /\ fstage = "built"
    /\ \E n \in 0..(FrameOverhead + 1) :
          /\ n < Len(frame)
          /\ frame' = Slice(frame, 0, n)
          /\ fstage' = "cut"
    /\ UNCHANGED << payload, seq, expected, parsed >>

Parse ==
    /\ UNCHANGED << devvars, vlqvars >>
    /\ fstage \in {"built", "flipped", "forged", "cut"}
    /\ \E e \in ExpectedIds(seq) :
          /\ expected' = e
          /\ parsed' = msg_parse(frame, e)
    /\ fstage' = "parsed_" \o fstage
    /\ UNCHANGED << payload, seq, frame >>

NextFrame == Build \/ Corrupt \/ Forge \/ Truncate \/ Parse

SpecFrame == InitFrame /\ [][NextFrame]_vars

(***************************************************************************)
(* Claims C1..C10.                                                         *)
(***************************************************************************)

\* C1 (SpecVlq): for every signed integer v, vlq_unpack(vlq_pack(v)) returns
\* exactly (v, empty remainder).  Stated as claimed; it fails for
\* 12288..16351, which vlq_pack encodes in two bytes whose first has bits 5
\* and 6 set.
C1_RoundTrip ==
    (vstage = "unpacked" /\ remainder = << >>)
        => /\ unpacked.exc = ""
           /\ unpacked.value = value
           /\ unpacked.rest = << >>

\* C2 (Spec), as claimed: when msg_parse is about to be called, the sequence
\* id it is given equals modulo 16 the one the request frame was built with.
C2_ExpectedIsRequestSequence ==
    pc = "parse" => ExpectedSequenceId(sequence_id) % 16 = req_msg[2] % 16

\* C2 (Spec), amended: the sequence id msg_parse is given equals modulo 16 the
\* one the request frame was built with plus one (the counter is incremented
\* between msg_build and msg_parse).
C2_ExpectedIsNextSequence ==
    pc = "parse" => ExpectedSequenceId(sequence_id) % 16 = (req_msg[2] + 1) % 16

\* a response is about to be parsed for a request built with nibble 15: the
\* expected nibble has wrapped to 0
C2_Witness ==
    /\ pc = "parse"
    /\ req_msg[2] % 16 = 15
    /\ ExpectedSequenceId(sequence_id) % 16 = 0

\* C3 (SpecFrame): for every payload msg_build can frame and every s in 0..15,
\* msg_parse(msg_build(p, s), s) succeeds and returns exactly p.
C3_FrameRoundTrip ==
    (fstage = "parsed_built" /\ expected = seq)
        => parsed.exc = "" /\ parsed.data = payload

\* the longest payload that fits a frame made the round trip with s = 15
C3_Witness ==
    /\ fstage = "parsed_built"
    /\ expected = seq
    /\ seq = 15
    /\ Len(payload) = UByteMax - FrameOverhead
    /\ parsed.exc = ""
    /\ parsed.data = payload

\* the new data bytes of the response just accepted: its payload length minus
\* the request's payload length
NewBytes == Len(msg_resp) - (Len(req_msg) - 5)

\* a response has just been accepted and the loop has either ended or not
JustAccepted == (pc = "decompress") \/ (pc = "loop" /\ round > 0)

\* C4 (Spec), as claimed: after an accepted response the loop exits iff fewer
\* than 0x28 new bytes came; on 0x28 or more it goes on to another request.
C4_ExitIffLess ==
    JustAccepted => ((pc = "decompress") <=> (NewBytes < 40))

\* C4 (Spec), amended: after an accepted response the loop exits iff the
\* number of new bytes differs from 0x28 (fewer or more); only on exactly 0x28
\* does it go on to another request.
C4_ExitIffNotChunk ==
    JustAccepted => ((pc = "decompress") <=> (NewBytes # 40))

\* the loop has ended on a response with 41 new bytes
C4_Witness == pc = "decompress" /\ NewBytes = 41

\* the number of new data bytes in answer i of this call and the bytes
\* themselves, as the device sent them
ServedCount(i) == served[i][1]
ServedTail(i) == Chunk(i - 1, served[i][1], served[i][2])

RECURSIVE ServedData(_)
ServedData(n) == IF n = 0 THEN << >> ELSE ServedData(n - 1) \o ServedTail(n)

\* C5 (Spec): if the first n answers of a call are accepted with exactly 40
\* new bytes each and the next with m in 0..39, identify has written exactly
\* n+1 requests when it leaves the loop, and the buffer it hands to
\* decompression is the concatenation in request order of the stripped
\* payloads, 40*n + m bytes; while every answer carried 40, the loop goes on
\* with the same concatenation accumulated.
C5_PagedAccumulation ==
    (JustAccepted /\ \A i \in 1..(Len(served) - 1) : ServedCount(i) = 40)
        => LET n == Len(served) - 1
               m == ServedCount(n + 1)
           IN  /\ m \in 0..39 =>
                     /\ pc = "decompress"
                     /\ round = n + 1
                     /\ data = ServedData(n + 1)
                     /\ Len(data) = 40 * n + m
               /\ m = 40 =>
                     /\ pc = "loop"
                     /\ round = n + 1
                     /\ data = ServedData(n + 1)
                     /\ Len(data) = 40 * (n + 1)

\* pages of 40, 40 and 10 bytes: three requests, 90 bytes for decompression
C5_Witness ==
    /\ pc = "decompress"
    /\ round = 3
    /\ Len(served) = 3
    /\ ServedCount(1) = 40 /\ ServedCount(2) = 40 /\ ServedCount(3) = 10
    /\ Len(data) = 90
    /\ data = ServedTail(1) \o ServedTail(2) \o ServedTail(3)

\* C6 (Spec): the counter starts at 0 and is incremented exactly once per
\* request written, over all identify calls of the Device whether they ended
\* in an error or not: request number n (from 0) has control byte
\* 0x10 | (n mod 16).
C6_SequenceCounter ==
    /\ sequence_id = written
    /\ round > 0 => req_msg[2] = 16 + ((written - 1) % 16)

\* the 17th request of a Device some call of which failed: the nibble is 0 again
C6_Witness ==
    /\ pc = "await"
    /\ written = 17
    /\ had_error
    /\ req_msg[2] = 16

\* C7 (SpecDeep): request k (from 0) of a call has the payload 0x01, a VLQ
\* field that vlq_unpack decodes to the non-negative address 40*k, 0x28.
\* Stated as claimed; it fails at k = 308 (address 12320), see C1.
C7_RequestAddress ==
    req_msg # << >> =>
        LET p == SubSeq(req_msg, 3, Len(req_msg) - 3)
            u == vlq_unpack(SubSeq(p, 2, Len(p)))
        IN  /\ p[1] = 1
            /\ u.exc = ""
            /\ u.value = 40 * (round - 1)
            /\ u.value >= 0
            /\ u.rest = << 40 >>

\* C8 (SpecFrame): msg_parse(msg_build(p, s), (s+1) mod 16) fails with the
\* sequence-mismatch error and returns no payload; whatever frame it is
\* given, msg_parse accepts it only if the frame's sequence nibble equals
\* expected_sequence_id & 0x0F.
C8_SequenceMismatch ==
    /\ (fstage = "parsed_built" /\ expected = (seq + 1) % 16)
          => /\ parsed.exc = "ValueError"
             /\ parsed.text = "Wrong sequence id (means NAK response)"
             /\ parsed.data = << >>
    /\ (fstage \in {"parsed_built", "parsed_flipped", "parsed_forged", "parsed_cut"}
          /\ parsed.exc = "")
          => frame[2] % 16 = expected % 16

\* a frame built with s = 15 and parsed against 0 is a sequence mismatch
C8_Witness ==
    /\ fstage = "parsed_built"
    /\ seq = 15
    /\ expected = 0
    /\ parsed.exc = "ValueError"
    /\ parsed.text = "Wrong sequence id (means NAK response)"

\* the frame differs from the one msg_build returned only in its payload bytes
\* or its two CRC bytes
FlippedInPayloadOrCrc ==
    LET built == msg_build(payload, seq).msg
    IN  /\ Len(frame) = Len(built)
        /\ frame # built
        /\ frame[1] = built[1]
        /\ frame[2] = built[2]
        /\ frame[Len(frame)] = built[Len(built)]

\* C9 (SpecFrame): a frame of msg_build with any single bit of its payload or
\* of its two CRC bytes flipped makes msg_parse fail with the checksum error.
C9_CorruptionDetected ==
    (fstage = "parsed_flipped" /\ FlippedInPayloadOrCrc)
        => /\ parsed.exc = "ValueError"
           /\ parsed.text = "Wrong CRC checksum"
           /\ parsed.data = << >>

\* a flip in the high CRC byte of a frame with a payload, parsed against the
\* frame's own sequence id, was reported as a checksum error
C9_Witness ==
    /\ fstage = "parsed_flipped"
    /\ FlippedInPayloadOrCrc
    /\ Len(payload) > 0
    /\ expected = seq
    /\ frame[Len(frame) - 2] # msg_build(payload, seq).msg[Len(frame) - 2]
    /\ parsed.text = "Wrong CRC checksum"

\* what is wrong with the frame handed to msg_parse, read off its bytes
BadCrc ==
    \/ Len(frame) < 3
    \/ << frame[Len(frame) - 2], frame[Len(frame) - 1] >>
          # crc_struct_pack(crc_ccitt(SubSeq(frame, 1, Len(frame) - 3)))
BadLength == frame[1] # Len(frame)
BadMarker == frame[2] \div 16 # 1
BadSync == frame[Len(frame)] # 126
BadSequence == frame[2] % 16 # expected % 16

\* C10 (SpecFrame): msg_parse reports the first failing check in the order
\* CRC, declared length, control marker, sync byte, sequence id.
C10_ValidationOrder ==
    fstage \in {"parsed_built", "parsed_flipped", "parsed_forged", "parsed_cut"}
        => parsed.text =
              IF BadCrc THEN "Wrong CRC checksum"
              ELSE IF BadLength THEN "Wrong length"
              ELSE IF BadMarker THEN "upper nibble in sequence byte is wrong"
              ELSE IF BadSync THEN "sync byte is wrong"
              ELSE IF BadSequence THEN "Wrong sequence id (means NAK response)"
              ELSE ""

\* a frame with a valid CRC, a wrong marker and a wrong sequence nibble was
\* reported for its marker
C10_Witness ==
    /\ fstage = "parsed_forged"
    /\ ~BadCrc /\ ~BadLength /\ BadMarker /\ BadSequence
    /\ parsed.exc = "AssertionError"
    /\ parsed.text = "upper nibble in sequence byte is wrong"

(***************************************************************************)
(* Claims C11..C20.                                                        *)
(***************************************************************************)

\* the messages with which msg_parse rejects a frame
ParseRejections ==
    { "Wrong CRC checksum", "Wrong length", "upper nibble in sequence byte is wrong",
      "sync byte is wrong", "Wrong sequence id (means NAK response)" }

\* C11 (Spec): if msg_parse rejects a response in any round, identify ends
\* with that error and returns no record, the read that delivered the rejected
\* frame is the last transport operation of the call (no further
\* reset_input_buffer, write or read), and the requests written by the call
\* are those of pages 0, 1, 2, ... once each.
C11_NoRetry ==
    /\ result.text \in ParseRejections
          => /\ pc = "idle"
             /\ result.exc # ""
             /\ result.exc = msg_parse(msg, sequence_id).exc
             /\ result.text = msg_parse(msg, sequence_id).text
             /\ op_count = 4 * round
             /\ last_op = << "read", msg[1] - 1 >>
             /\ Len(served) = round
    /\ round > 0
          => req_msg = msg_build(<< 1 >> \o vlq_pack(40 * (round - 1)) \o << 40 >>,
                                 written - 1).msg

\* the second response of a call was a NAK: the call ended with the sequence
\* error after two requests and eight transport operations
C11_Witness ==
    /\ pc = "idle"
    /\ result.exc = "ValueError"
    /\ result.text = "Wrong sequence id (means NAK response)"
    /\ round = 2
    /\ op_count = 8

\* the order of the transport operations within one round
RoundOps == << "reset_input_buffer", "write", "read", "read" >>

\* C12 (Spec): the transport operations of a call are, in order,
\* reset_input_buffer, write(request frame), read(1), read(declared length - 1),
\* repeated; a round's reset and write happen only after the response of the
\* round before has been read completely and accepted by msg_parse.
C12_HalfDuplex ==
    /\ op_count = 0 => last_op = << "none", 0 >>
    /\ op_count > 0 => last_op[1] = RoundOps[((op_count - 1) % 4) + 1]
    /\ round = (op_count + 2) \div 4
    /\ op_count % 4 = 2 => last_op[2] = Len(req_msg)
    /\ op_count % 4 = 3 => last_op[2] = 1
    /\ (op_count > 0 /\ op_count % 4 = 0) => last_op[2] = msg[1] - 1
    /\ (op_count > 4 /\ op_count % 4 = 1)
          => msg[1] = Len(msg) /\ msg_parse(msg, sequence_id).exc = ""
    /\ (op_count > 4 /\ op_count % 4 = 2)
          => msg[1] = Len(msg) /\ msg_parse(msg, sequence_id - 1).exc = ""

\* the second request of a call has just been written, as the sixth transport
\* operation
C12_Witness ==
    /\ op_count = 6
    /\ last_op[1] = "write"
    /\ round = 2
    /\ pc = "await"

\* C13 (SpecDecode): vlq_unpack applied to a byte string in which every byte
\* has the continuation bit 0x80 set, the empty string included, fails with
\* the error of a string that ends too early and returns no value.
C13_Truncation ==
    (vstage = "decoded" /\ \A i \in 1..Len(vlq_bstr) : vlq_bstr[i] >= 128)
        => /\ unpacked.exc = "ValueError"
           /\ unpacked.text = "last byte has MSB set"

\* the two continuation bytes E0 80 were refused
C13_Witness ==
    /\ vstage = "decoded"
    /\ vlq_bstr = << 224, 128 >>
    /\ unpacked.exc = "ValueError"
    /\ unpacked.text = "last byte has MSB set"

\* vlq_unpack decodes b to (v, empty remainder)
Decodes(b, v) ==
    LET u == vlq_unpack(b)
    IN  u.exc = "" /\ u.value = v /\ u.rest = << >>

\* every string of one or two bytes that vlq_unpack decodes with nothing left
\* over, as << value decoded, length >>
ShortDecodings ==
    { << vlq_unpack(b).value, Len(b) >> :
        b \in { c \in UNION { [1..n -> 0..255] : n \in 1..2 } :
                   vlq_unpack(c).exc = "" /\ vlq_unpack(c).rest = << >> } }

\* C14 (SpecVlq): vlq_pack(v) is the shortest byte string that vlq_unpack
\* decodes to (v, empty remainder): it decodes to v, no string of fewer bytes
\* does (checked against all strings of one and two bytes), and without its
\* leading group it no longer decodes to v.  Stated as claimed; it fails for
\* 12288..16351, where vlq_pack(v) does not decode to v at all, see C1.
C14_Shortest ==
    vstage = "packed"
        => /\ Decodes(vlq_bstr, value)
           /\ \A n \in 1..2 : n < Len(vlq_bstr) => << value, n >> \notin ShortDecodings
           /\ Len(vlq_bstr) > 1 => ~Decodes(Tail(vlq_bstr), value)

\* C15 (SpecFrame): the frame msg_build returns for payload p and sequence id
\* s is len(p)+5, 0x10 | (s & 0x0F), p, the CRC of those bytes high byte
\* first, 0x7E; its first byte is its length; sequence ids congruent modulo
\* 16 give the same frame.
C15_FrameLayout ==
    fstage = "built"
        => LET head == << Len(payload) + 5, 16 + (seq % 16) >> \o payload
               c == crc_ccitt(head)
           IN  /\ frame = head \o << c \div 256, c % 256 >> \o << 126 >>
               /\ frame[1] = Len(frame)
               /\ \A k \in {-16, 16, 256} : msg_build(payload, seq + k).msg = frame

\* the frame of payload 7E with sequence id -1: 06 1F 7E 63 4A 7E
C15_Witness ==
    /\ fstage = "built"
    /\ payload = << 126 >>
    /\ seq = -1
    /\ frame = << 6, 31, 126, 99, 74, 126 >>

\* C16 (SpecVlq): vlq_pack(0) = 00, vlq_pack(-1) = 7F, vlq_pack(127) = 80 7F,
\* and vlq_unpack of each of these strings returns (0, empty), (-1, empty) and
\* (127, empty).
C16_ReferenceVectors ==
    (vstage \in {"packed", "unpacked"} /\ value \in {0, -1, 127})
        => /\ value = 0 => vlq_bstr = << 0 >>
           /\ value = -1 => vlq_bstr = << 127 >>
           /\ value = 127 => vlq_bstr = << 128, 127 >>
           /\ (vstage = "unpacked" /\ remainder = << >>)
                 => /\ unpacked.exc = ""
                    /\ unpacked.value = value
                    /\ unpacked.rest = << >>

\* 127 was packed to 80 7F and these two bytes unpacked to (127, empty)
C16_Witness ==
    /\ vstage = "unpacked"
    /\ value = 127
    /\ vlq_bstr = << 128, 127 >>
    /\ remainder = << >>
    /\ unpacked.value = 127
    /\ unpacked.rest = << >>

\* C18 (SpecVlq): vlq_unpack(vlq_pack(v) followed by r) consumes exactly the
\* bytes of vlq_pack(v) and returns r unchanged as the remainder; every byte
\* of vlq_pack(v) but the last has the continuation bit set, the last has it
\* clear.
C18_SelfTerminating ==
    /\ vstage \in {"packed", "unpacked"}
          => /\ Len(vlq_bstr) >= 1
             /\ \A i \in 1..(Len(vlq_bstr) - 1) : vlq_bstr[i] \in 128..255
             /\ vlq_bstr[Len(vlq_bstr)] \in 0..127
    /\ vstage = "unpacked"
          => /\ unpacked.exc = ""
             /\ unpacked.rest = remainder
             /\ Len(vlq_bstr \o remainder) - Len(unpacked.rest) = Len(vlq_bstr)

\* a three-byte encoding followed by a remainder that starts with a
\* continuation byte: the remainder came back untouched
C18_Witness ==
    /\ vstage = "unpacked"
    /\ Len(vlq_bstr) = 3
    /\ remainder = << 255, 1 >>
    /\ unpacked.rest = << 255, 1 >>

\* the frame with its low CRC byte damaged, and with its last byte damaged
CrcDamaged == FlipBit(frame, Len(frame) - 1, 0)
SyncDamaged == FlipBit(frame, Len(frame), 0)

\* C17 (SpecFrame): a CRC mismatch, a structural violation and a sequence id
\* mismatch reach the caller as three pairwise distinct kinds of error
\* (exception classes): the class raised for a frame's sequence mismatch
\* differs from the class raised for the same frame with a damaged CRC and
\* from the class raised for it with a damaged sync byte, and these two differ
\* from one another.  Stated as claimed; it fails, the CRC mismatch and the
\* sequence mismatch are both ValueError.
C17_DistinctKinds ==
    (fstage = "parsed_built" /\ parsed.text = "Wrong sequence id (means NAK response)")
        => LET crc_kind == msg_parse(CrcDamaged, expected).exc
               struct_kind == msg_parse(SyncDamaged, seq).exc
           IN  /\ crc_kind # "" /\ struct_kind # ""
               /\ parsed.exc # struct_kind
               /\ crc_kind # struct_kind
               /\ parsed.exc # crc_kind

\* the consumed groups of d, n of them, as one number, first group highest
RECURSIVE GroupsValue(_, _)
GroupsValue(d, n) ==
    IF n = 0 THEN 0 ELSE 128 * GroupsValue(d, n - 1) + (d[n] % 128)

\* C19 (SpecDecode): when vlq_unpack decodes a byte string, the value is
\* negative if and only if bits 5 and 6 of the first byte are both set;
\* otherwise it is the 7-bit groups consumed, first group highest, read as one
\* non-negative number.
C19_SignRule ==
    (vstage = "decoded" /\ unpacked.exc = "")
        => LET sign == (vlq_bstr[1] % 128) >= 96
               n == Len(vlq_bstr) - Len(unpacked.rest)
           IN  /\ (unpacked.value < 0) <=> sign
               /\ ~sign => /\ unpacked.value >= 0
                           /\ unpacked.value = GroupsValue(vlq_bstr, n)

\* E0 00, whose first byte has bits 5 and 6 set, decoded to -4096
C19_Witness ==
    /\ vstage = "decoded"
    /\ vlq_bstr = << 224, 0 >>
    /\ unpacked.exc = ""
    /\ unpacked.value = -4096

\* C20 (SpecFrame): the first byte of a frame msg_build returns is the
\* frame's length, never that length modulo 256; for a payload of more than
\* 250 bytes msg_build fails and returns no frame.
C20_LengthNeverWraps ==
    /\ fstage = "built" => frame[1] = Len(frame) /\ Len(frame) = Len(payload) + 5
    /\ fstage \in {"built", "failed"}
          => ((Len(payload) > 250) <=> (fstage = "failed"))
    /\ fstage = "failed" => frame = << >>

\* msg_build was handed 251 bytes and failed
C20_Witness ==
    /\ fstage = "failed"
    /\ Len(payload) = 251
    /\ frame = << >>

=============================================================================
